---- MODULE Spec2Model ----
(***************************************************************************)
(* mash: an interactive shell (src/main.rs).  The model covers the main    *)
(* read/dispatch loop, the cd built-in, the fork/exec/wait launcher and    *)
(* the processes the launcher creates.  Strings are sequences of           *)
(* one-character strings; paths are kept as the raw strings PathBuf holds  *)
(* and are resolved against a small file system the way the kernel does.   *)
(***************************************************************************)
EXTENDS Integers, Sequences, FiniteSets, TLC

\* ------------------------------------------------------------------ bounds
\* number of non-empty lines the terminal delivers in one run, over all the
\* processes that read it (empty lines and read errors are not counted: they
\* change nothing)
MaxLines == 2
\* number of processes that can exist (the shell and what it forks)
MaxProcs == 3

\* number of times a wait call is interrupted in one run
MaxWaitErrors == 1

\* length of the lines Command::parse is applied to on its own
MaxLen == 3

Procs == 0 .. (MaxProcs - 1)

\* ------------------------------------------------------------ file system
\* A node is named by its canonical path: the sequence of its component
\* names below the root, each name a string.  /h, /t and /t/s are
\* directories, /l is a symbolic link to /t/s, /f is a regular file; nothing
\* else exists (/n is missing).
DirNode == [kind |-> "dir", target |-> <<>>]
FileNode == [kind |-> "file", target |-> <<>>]
LinkNode(t) == [kind |-> "link", target |-> t]

Root == <<>>
NodeH == << <<"h">> >>
NodeT == << <<"t">> >>
NodeTS == << <<"t">>, <<"s">> >>
NodeL == << <<"l">> >>
NodeF == << <<"f">> >>

FS ==
  ( Root :> DirNode ) @@ ( NodeH :> DirNode ) @@ ( NodeT :> DirNode ) @@
  ( NodeTS :> DirNode ) @@ ( NodeL :> LinkNode(NodeTS) ) @@
  ( NodeF :> FileNode )

\* programs execvp finds on PATH
Executables == { <<"p">> }

\* values of the HOME environment variable at startup (NoHome: not set)
NoHome == <<"?">>
HomeEnv == { NoHome, <<"/", "h">>, <<"/", "l">>, <<"/", "n">> }

\* the directory the shell is started in
StartDirs == { NodeT }

\* lines the line editor can return
Lines ==
  { <<>>,
    <<" ">>,
    <<"e", "x", "i", "t">>,
    <<" ", "e", "x", "i", "t">>,
    <<"c", "d">>,
    <<"c", "d", " ", "/", "t">>,
    <<"c", "d", " ", ".", ".">>,
    <<"c", "d", " ", "s">>,
    <<"c", "d", " ", "/", "l">>,
    <<"c", "d", " ", "/", "n">>,
    <<"c", "d", " ", "/", "f">>,
    <<"p">>,
    <<"q", " ", "s">> }

\* ------------------------------------------------------- string operators
\* char::is_whitespace, for the characters the lines are made of
Whitespace == { " ", "\t" }
IsWhitespace(c) == c \in Whitespace

RECURSIVE TrimStart(_)
TrimStart(s) ==
  IF s = <<>> THEN <<>>
  ELSE IF IsWhitespace(Head(s)) THEN TrimStart(Tail(s)) ELSE s

RECURSIVE TrimEnd(_)
TrimEnd(s) ==
  IF s = <<>> THEN <<>>
  ELSE IF IsWhitespace(s[Len(s)]) THEN TrimEnd(SubSeq(s, 1, Len(s) - 1)) ELSE s

\* str::trim
Trim(s) == TrimEnd(TrimStart(s))

\* the longest prefix of s without the separator test sep
RECURSIVE TakeToken(_, _)
TakeToken(s, sep) ==
  IF s = <<>> \/ s[1] \in sep THEN <<>>
  ELSE <<s[1]>> \o TakeToken(Tail(s), sep)

\* the maximal non-empty runs of characters of s outside sep, in order
RECURSIVE SplitOn(_, _)
SplitOn(s, sep) ==
  IF s = <<>> THEN <<>>
  ELSE IF s[1] \in sep THEN SplitOn(Tail(s), sep)
  ELSE LET tok == TakeToken(s, sep)
       IN  <<tok>> \o SplitOn(SubSeq(s, Len(tok) + 1, Len(s)), sep)

\* a split on the space character alone
SplitSpaces(s) == SplitOn(s, {" "})

\* str::split_whitespace
SplitWhitespace(s) == SplitOn(s, Whitespace)

\* Command::parse
Parse(line) ==
  LET parts == SplitWhitespace(line)
  IN  [ name |-> IF parts = <<>> THEN <<>> ELSE Head(parts),
        args |-> IF parts = <<>> THEN <<>> ELSE Tail(parts) ]

\* line.is_empty()
IsEmptyLine(line) == line = <<>>

\* a comparison that forgets to trim the line
IsExitUntrimmed(line) == line = <<"e", "x", "i", "t">>

\* line.trim() == "exit"
IsExit(line) == Trim(line) = <<"e", "x", "i", "t">>

\* -------------------------------------------------------- path operators
\* Path::is_relative
IsRelative(p) == p = <<>> \/ p[1] # "/"

\* PathBuf::push
PathPush(base, p) ==
  IF ~IsRelative(p) THEN p
  ELSE IF base = <<>> \/ base[Len(base)] = "/" THEN base \o p
  ELSE base \o <<"/">> \o p

Parent(node) == IF node = <<>> THEN <<>> ELSE SubSeq(node, 1, Len(node) - 1)

\* path resolution as the kernel does it: walk the components from node cur,
\* following symbolic links; the result is the canonical node or a failure
Failed == [ok |-> FALSE, node |-> Root]
RECURSIVE Walk(_, _)
Walk(cur, comps) ==
  IF comps = <<>> THEN [ok |-> TRUE, node |-> cur]
  ELSE IF FS[cur].kind # "dir" THEN Failed
  ELSE LET c == Head(comps)
           nxt == Append(cur, c)
       IN  IF c = <<".">> THEN Walk(cur, Tail(comps))
           ELSE IF c = <<".", ".">> THEN Walk(Parent(cur), Tail(comps))
           ELSE IF nxt \notin DOMAIN FS THEN Failed
           ELSE IF FS[nxt].kind = "link" THEN Walk(FS[nxt].target, Tail(comps))
           ELSE Walk(nxt, Tail(comps))

\* Path::canonicalize (realpath) of the raw path p in a process whose
\* working directory is the node wd
Canonicalize(wd, p) ==
  IF p = <<>> THEN Failed
  ELSE Walk(IF IsRelative(p) THEN wd ELSE Root, SplitOn(p, {"/"}))

\* the text of a canonical node: "/" and the names separated by "/"
RECURSIVE Display(_)
Display(node) ==
  IF node = <<>> THEN <<"/">>
  ELSE IF Len(node) = 1 THEN <<"/">> \o node[1]
  ELSE Display(Parent(node)) \o <<"/">> \o node[Len(node)]

\* format!("{} % ", text)
FormatPrompt(text) == text \o <<" ", "%", " ">>

\* chdir: the new working directory, or a failure when p does not resolve
\* to a directory
Chdir(wd, p) ==
  LET r == Canonicalize(wd, p)
  IN  IF r.ok /\ FS[r.node].kind = "dir" THEN r ELSE Failed

\* ------------------------------------------------------------------ state
VARIABLES
  pc,       \* per process: where it is (see PcValues)
  path,     \* per process: Shell.path, the raw text PathBuf holds
  prompt,   \* per process: Shell.prompt
  home,     \* per process: Shell.home
  cwd,      \* per process: the working directory the kernel holds for it
  line,     \* per process: the line whose command is Shell.current_command
  hist,     \* per process: the editor's in-memory history
  parent,   \* per process: the process that forked it (-1: none)
  status,   \* per process: its exit status once it has exited (-1 before)
  image,    \* per process: the execvp call it made (NoImage before)
  env,      \* the value of HOME the shell was started with
  ref,      \* per process: the reference directory of the cd commands so far
  disk,     \* the lines save_history has written
  nprocs,   \* number of processes created so far
  nlines,   \* number of non-empty lines delivered so far
  nwaiterr, \* number of wait calls that returned an error so far
  last      \* the step taken last: who, what, on which line, with what result

vars ==
  << pc, path, prompt, home, cwd, line, hist, parent, status, image, env,
     ref, disk, nprocs, nlines, nwaiterr, last >>

\* "unused": not created; "read": in main's loop, about to call readline;
\* "wait": in execute_external's parent branch, inside wait; "child": in the
\* child branch, just after fork; "image": replaced by the external program;
\* "exited": terminated, not yet waited for; "reaped": terminated and waited for
PcValues == { "unused", "read", "wait", "child", "image", "exited", "reaped" }

Live(p) == pc[p] \in { "read", "wait", "child", "image" }

NoLine == << "-" >>
NoRef == [ok |-> FALSE, node |-> Root]
NoImage == [called |-> FALSE, prog |-> <<>>, argv |-> <<>>, wd |-> Root]

Step(p, op, l, res, logged) ==
  [ pid |-> p, op |-> op, line |-> l, res |-> res, logged |-> logged ]

\* Shell::default: HOME, or "/" when it is not set
HomeOrRoot(e) == IF e = NoHome THEN <<"/">> ELSE e

Init ==
  \E e \in HomeEnv, start \in StartDirs :
    LET h == HomeOrRoot(e)
        c == Canonicalize(start, h)
    IN  /\ env = e
        /\ image = [p \in Procs |-> NoImage]
        /\ pc = [p \in Procs |-> IF p = 0 THEN "read" ELSE "unused"]
        /\ path = [p \in Procs |-> IF p = 0 THEN h ELSE <<>>]
        /\ prompt = [p \in Procs |-> IF p = 0 THEN FormatPrompt(h) ELSE <<>>]
        /\ home = [p \in Procs |-> IF p = 0 THEN h ELSE <<>>]
        /\ cwd = [p \in Procs |-> IF p = 0 THEN start ELSE Root]
        /\ line = [p \in Procs |-> NoLine]
        /\ hist = [p \in Procs |-> <<>>]
        /\ parent = [p \in Procs |-> -1]
        /\ status = [p \in Procs |-> -1]
        /\ ref = [p \in Procs |-> IF p = 0 THEN c ELSE NoRef]
        /\ disk = <<>>
        /\ nprocs = 1
        /\ nlines = 0
        /\ nwaiterr = 0
        /\ last = [ pid |-> 0, op |-> "start", line |-> NoLine, res |-> "Ok",
                    logged |-> FALSE ]

\* ------------------------------------------------------------- the cd arm
\* Shell::execute, the "cd" arm.  The target is stored in Shell.path (and,
\* when there is an argument, shown in the prompt) before it is resolved;
\* canonicalize and chdir return their error with `?`, after those
\* assignments.  The result: the fields and the working directory the arm
\* leaves, and whether it returned Ok
\* a cd that joins a relative argument to the home directory instead of the
\* current one
CdTargetFromHome(cur, hm, args) ==
  IF args # <<>> THEN PathPush(hm, args[1]) ELSE hm

\* the value the cd arm assigns to Shell.path
CdTarget(cur, hm, args) ==
  IF args # <<>> THEN PathPush(cur, args[1]) ELSE hm

\* the prompt after the assignment made before the target is resolved
CdEarlyPrompt(old, target, args) ==
  IF args # <<>> THEN FormatPrompt(target) ELSE old

Cd(wd, cur, pr, hm, args) ==
  LET target == CdTarget(cur, hm, args)
      early == CdEarlyPrompt(pr, target, args)
      canon == Canonicalize(wd, target)
      moved == Chdir(wd, target)
  IN  IF ~canon.ok
      THEN [path |-> target, prompt |-> early, cwd |-> wd, res |-> "Err",
            stage |-> "canonicalize"]
      ELSE IF ~moved.ok
      THEN [path |-> target, prompt |-> FormatPrompt(Display(canon.node)),
            cwd |-> wd, res |-> "Err", stage |-> "chdir"]
      ELSE [path |-> target, prompt |-> FormatPrompt(Display(canon.node)),
            cwd |-> moved.node, res |-> "Ok", stage |-> "done"]

\* the reference of the cd commands: a relative argument is resolved
\* against the previous canonical directory, an absolute one is taken as
\* it is, and no argument means the home directory
RefCd(r, hm, args, res) ==
  IF ~r.ok \/ res # "Ok" THEN NoRef
  ELSE IF args = <<>> THEN Canonicalize(r.node, hm)
  ELSE IF IsRelative(args[1]) THEN Walk(r.node, SplitOn(args[1], {"/"}))
  ELSE Canonicalize(r.node, args[1])

\* ------------------------------------------------------------ main's loop
CanRead(p) == pc[p] = "read" /\ nlines < MaxLines

\* rl.add_history_entry and rl.save_history succeeded
Recorded(p, l) ==
  /\ hist' = [hist EXCEPT ![p] = Append(@, l)]
  /\ disk' = Append(disk, l)

\* readline returned the empty line: continue
ReadEmpty(p) ==
  /\ UNCHANGED << env, image >>
  /\ pc[p] = "read"
  /\ \E l \in Lines :
       /\ IsEmptyLine(l)
       /\ last' = Step(p, "empty", l, "Ok", FALSE)
  /\ UNCHANGED << pc, path, prompt, home, cwd, line, hist, parent, status,
                  ref, disk, nprocs, nlines, nwaiterr >>

\* readline returned a line that trims to "exit": break, main returns Ok(())
ReadExit(p) ==
  /\ UNCHANGED << env, image >>
  /\ CanRead(p)
  /\ \E l \in Lines :
       /\ ~IsEmptyLine(l)
       /\ IsExit(l)
       /\ last' = Step(p, "exit", l, "Ok", FALSE)
  /\ nlines' = nlines + 1
  /\ pc' = [pc EXCEPT ![p] = "exited"]
  /\ status' = [status EXCEPT ![p] = 0]
  /\ UNCHANGED << path, prompt, home, cwd, line, hist, parent, ref, disk,
                  nprocs, nwaiterr >>

\* readline returned an error (end of input, interrupt, I/O error): it is
\* logged and the loop goes on
ReadError(p) ==
  /\ UNCHANGED << env, image >>
  /\ pc[p] = "read"
  /\ \E e \in { "eof", "readerr" } :
       last' = Step(p, e, NoLine, "Err", TRUE)
  /\ UNCHANGED << pc, path, prompt, home, cwd, line, hist, parent, status,
                  ref, disk, nprocs, nlines, nwaiterr >>

\* a line whose command is cd: Shell::execute's cd arm, then the history
\* (a failure to record it ends the process with status 1) or the error log
ReadCd(p) ==
  /\ UNCHANGED << env, image >>
  /\ CanRead(p)
  /\ \E l \in Lines, recorded \in BOOLEAN :
       LET c == Parse(l)
           r == Cd(cwd[p], path[p], prompt[p], home[p], c.args)
       IN  /\ ~IsEmptyLine(l)
           /\ ~IsExit(l)
           /\ c.name = <<"c", "d">>
           /\ r.res = "Err" => recorded
           /\ line' = [line EXCEPT ![p] = l]
           /\ path' = [path EXCEPT ![p] = r.path]
           /\ prompt' = [prompt EXCEPT ![p] = r.prompt]
           /\ cwd' = [cwd EXCEPT ![p] = r.cwd]
           /\ ref' = [ref EXCEPT ![p] = RefCd(@, home[p], c.args, r.res)]
           /\ IF r.res = "Err"
              THEN /\ last' = Step(p, "cd", l, r.stage, TRUE)
                   /\ UNCHANGED << pc, status, hist, disk >>
              ELSE IF recorded
              THEN /\ last' = Step(p, "cd", l, "Ok", FALSE)
                   /\ Recorded(p, l)
                   /\ UNCHANGED << pc, status >>
              ELSE /\ last' = Step(p, "cd", l, "histfail", TRUE)
                   /\ pc' = [pc EXCEPT ![p] = "exited"]
                   /\ status' = [status EXCEPT ![p] = 1]
                   /\ UNCHANGED << hist, disk >>
  /\ nlines' = nlines + 1
  /\ UNCHANGED << home, parent, nprocs, nwaiterr >>

\* a line whose command is not cd, fork succeeded: the parent goes to wait,
\* the child starts in the child branch with a copy of the parent's memory
IsExternal(l) == ~IsEmptyLine(l) /\ ~IsExit(l) /\ Parse(l).name # <<"c", "d">>

\* a launcher that sets the working directory in the caller, before fork
ForkCwdChdirFirst(p, c) ==
  LET moved == Chdir(cwd[p], path[p])
      wd == IF moved.ok THEN moved.node ELSE cwd[p]
  IN  [cwd EXCEPT ![p] = wd, ![c] = wd]

\* the working directories after fork: the child inherits the caller's, the
\* caller's is not touched (chdir is called in the child branch only)
ForkCwd(p, c) == [cwd EXCEPT ![c] = cwd[p]]

ReadFork(p) ==
  /\ UNCHANGED env
  /\ CanRead(p)
  /\ nprocs < MaxProcs
  /\ \E l \in Lines :
       LET c == nprocs
       IN  /\ IsExternal(l)
           /\ line' = [line EXCEPT ![p] = l, ![c] = l]
           /\ pc' = [pc EXCEPT ![p] = "wait", ![c] = "child"]
           /\ path' = [path EXCEPT ![c] = path[p]]
           /\ prompt' = [prompt EXCEPT ![c] = prompt[p]]
           /\ home' = [home EXCEPT ![c] = home[p]]
           /\ cwd' = ForkCwd(p, c)
           /\ image' = [image EXCEPT ![c] = NoImage]
           /\ hist' = [hist EXCEPT ![c] = hist[p]]
           /\ ref' = [ref EXCEPT ![c] = ref[p]]
           /\ parent' = [parent EXCEPT ![c] = p]
           /\ last' = Step(p, "fork", l, "Ok", FALSE)
  /\ nprocs' = nprocs + 1
  /\ nlines' = nlines + 1
  /\ UNCHANGED << status, disk, nwaiterr >>

\* a failed fork that still runs the parent branch and waits
ForkErrWaits(p) == [pc EXCEPT ![p] = "wait"]

\* Err(err) => Err(Box::new(err)): neither branch runs, the caller is back
\* in main's loop
ForkErr(p) == pc

\* a line whose command is not cd, fork failed: execute returns Err
ReadForkFailed(p) ==
  /\ UNCHANGED << env, image >>
  /\ CanRead(p)
  /\ pc' = ForkErr(p)
  /\ \E l \in Lines :
       /\ IsExternal(l)
       /\ line' = [line EXCEPT ![p] = l]
       /\ last' = Step(p, "forkfail", l, "Err", TRUE)
  /\ nlines' = nlines + 1
  /\ UNCHANGED << path, prompt, home, cwd, hist, parent, status, ref,
                  disk, nprocs, nwaiterr >>

\* ------------------------------------------------------- execute_external
\* the child branch: chdir(workdir), then execvp(name, [name] + args).  A
\* failure of either is returned with `?`: the child is then back in
\* Shell::execute, which returns the error to main's loop, which logs it and
\* goes on to the next readline
ChildFailed(c, wd) ==
  /\ pc' = [pc EXCEPT ![c] = "read"]
  /\ cwd' = [cwd EXCEPT ![c] = wd]
  /\ UNCHANGED status

\* a child branch that leaves out chdir(workdir)
ExecDirInherited(c) == [ok |-> TRUE, node |-> cwd[c]]

\* chdir(workdir), workdir being the caller's Shell.path
ExecDir(c) == Chdir(cwd[c], path[c])

\* an argument vector without the program name in front
ExecArgvNoName(cmd) == cmd.args

\* the argument vector: the name inserted before the arguments
ExecArgv(cmd) == <<cmd.name>> \o cmd.args

ChildBranch(c) ==
  /\ UNCHANGED env
  /\ pc[c] = "child"
  /\ LET moved == ExecDir(c)
         cmd == Parse(line[c])
         call == [called |-> TRUE, prog |-> cmd.name, argv |-> ExecArgv(cmd),
                  wd |-> moved.node]
     IN  IF ~moved.ok
         THEN /\ ChildFailed(c, cwd[c])
              /\ last' = Step(c, "child", line[c], "chdir", TRUE)
              /\ UNCHANGED image
         ELSE IF cmd.name \notin Executables
         THEN /\ ChildFailed(c, moved.node)
              /\ last' = Step(c, "child", line[c], "execvp", TRUE)
              /\ image' = [image EXCEPT ![c] = call]
         ELSE /\ pc' = [pc EXCEPT ![c] = "image"]
              /\ cwd' = [cwd EXCEPT ![c] = moved.node]
              /\ last' = Step(c, "child", line[c], "Ok", FALSE)
              /\ image' = [image EXCEPT ![c] = call]
              /\ UNCHANGED status
  /\ UNCHANGED << path, prompt, home, line, hist, parent, ref, disk, nprocs,
                  nlines, nwaiterr >>

\* the external program runs to its end
ImageExits(c) ==
  /\ UNCHANGED << env, image >>
  /\ pc[c] = "image"
  /\ pc' = [pc EXCEPT ![c] = "exited"]
  /\ \E s \in { 0, 1 } : status' = [status EXCEPT ![c] = s]
  /\ last' = Step(c, "imageexit", line[c], "Ok", FALSE)
  /\ UNCHANGED << path, prompt, home, cwd, line, hist, parent, ref, disk,
                  nprocs, nlines, nwaiterr >>

\* the parent branch: wait returns a terminated child of the caller;
\* execute returns Ok and main records the line in the history
Waitable(p) == { c \in Procs : parent[c] = p /\ pc[c] = "exited" }

WaitReturns(p) ==
  /\ UNCHANGED << env, image >>
  /\ pc[p] = "wait"
  /\ \E c \in Waitable(p), recorded \in BOOLEAN :
       IF recorded
       THEN /\ pc' = [pc EXCEPT ![p] = "read", ![c] = "reaped"]
            /\ Recorded(p, line[p])
            /\ last' = Step(p, "wait", line[p], "Ok", FALSE)
            /\ UNCHANGED status
       ELSE /\ pc' = [pc EXCEPT ![p] = "exited", ![c] = "reaped"]
            /\ status' = [status EXCEPT ![p] = 1]
            /\ last' = Step(p, "wait", line[p], "histfail", TRUE)
            /\ UNCHANGED << hist, disk >>
  /\ UNCHANGED << path, prompt, home, cwd, line, parent, ref, nprocs, nlines,
                  nwaiterr >>

\* the parent branch: wait returns an error (it was interrupted by a signal)
\* and has collected no child; execute returns Err, main logs it
WaitFails(p) ==
  /\ UNCHANGED << env, image >>
  /\ pc[p] = "wait"
  /\ nwaiterr < MaxWaitErrors
  /\ nwaiterr' = nwaiterr + 1
  /\ pc' = [pc EXCEPT ![p] = "read"]
  /\ last' = Step(p, "wait", line[p], "Err", TRUE)
  /\ UNCHANGED << path, prompt, home, cwd, line, hist, parent, status, ref,
                  disk, nprocs, nlines >>

\* ---------------------------------------------------------- specification
Next ==
  \E p \in Procs :
    \/ ReadEmpty(p)
    \/ ReadExit(p)
    \/ ReadError(p)
    \/ ReadCd(p)
    \/ ReadFork(p)
    \/ ReadForkFailed(p)
    \/ ChildBranch(p)
    \/ ImageExits(p)
    \/ WaitReturns(p)
    \/ WaitFails(p)

Spec == Init /\ [][Next]_vars

TypeOK ==
  /\ pc \in [Procs -> PcValues]
  /\ nprocs \in 1 .. MaxProcs
  /\ nlines \in 0 .. MaxLines
  /\ \A p \in Procs : (pc[p] = "unused") <=> (p >= nprocs)
  /\ \A p \in Procs : cwd[p] \in DOMAIN FS /\ FS[cwd[p]].kind = "dir"

\* ------------------------------------------------- Command::parse alone
\* every line of at most MaxLen characters, of two kinds of whitespace and
\* two other characters
Chars == { " ", "\t", "a", "b" }
Inputs == UNION { [1 .. n -> Chars] : n \in 0 .. MaxLen }

\* the shell at its prompt, readline having returned the line l
InitParse ==
  \E l \in Inputs :
    LET h == <<"/", "h">>
    IN  /\ env = h
        /\ image = [p \in Procs |-> NoImage]
        /\ pc = [p \in Procs |-> IF p = 0 THEN "read" ELSE "unused"]
        /\ path = [p \in Procs |-> IF p = 0 THEN h ELSE <<>>]
        /\ prompt = [p \in Procs |-> IF p = 0 THEN FormatPrompt(h) ELSE <<>>]
        /\ home = [p \in Procs |-> IF p = 0 THEN h ELSE <<>>]
        /\ cwd = [p \in Procs |-> IF p = 0 THEN NodeT ELSE Root]
        /\ line = [p \in Procs |-> IF p = 0 THEN l ELSE NoLine]
        /\ hist = [p \in Procs |-> <<>>]
        /\ parent = [p \in Procs |-> -1]
        /\ status = [p \in Procs |-> -1]
        /\ ref = [p \in Procs |-> NoRef]
        /\ disk = <<>>
        /\ nprocs = 1
        /\ nlines = 0
        /\ nwaiterr = 0
        /\ last = [ pid |-> 0, op |-> "start", line |-> NoLine, res |-> "Ok",
                    logged |-> FALSE ]

\* shell.current_command = Some(Command::parse(&line))
ParseLine ==
  /\ last.op = "start"
  /\ last' = Step(0, "parse", line[0], Parse(line[0]), FALSE)
  /\ UNCHANGED << pc, path, prompt, home, cwd, line, hist, parent, status,
                  image, env, ref, disk, nprocs, nlines, nwaiterr >>

NextParse == ParseLine

SpecParse == InitParse /\ [][NextParse]_vars

\* ----------------------------------------------------------------- claims
ExitText == <<"e", "x", "i", "t">>
CdText == <<"c", "d">>

\* the steps in which main handles a line readline returned
LineOps == { "empty", "exit", "cd", "fork", "forkfail" }

\* the processes that are the shell the user started, not one it forked
IsShell(p) == pc[p] # "unused" /\ parent[p] = -1

IsBlank(l) == l # NoLine /\ Trim(l) = <<>>

LiveChildren(p) == { c \in Procs : parent[c] = p /\ Live(c) }

ExistingDir(wd, p) ==
  Canonicalize(wd, p).ok /\ FS[Canonicalize(wd, p).node].kind = "dir"

\* C1: a cd whose target cannot be resolved to its canonical form returns an
\* error and leaves Shell.path and the prompt exactly as they were.
C1_FailedCdKeepsState ==
  [][ (last'.op = "cd" /\ last'.res = "canonicalize")
        => /\ last'.logged
           /\ path'[last'.pid] = path[last'.pid]
           /\ prompt'[last'.pid] = prompt[last'.pid] ]_vars

\* C2: the child branch of fork never returns to shell logic: only the
\* original shell process is ever in main's read/dispatch loop.
C2_OnlyShellInLoop ==
  \A p \in Procs : pc[p] \in { "read", "wait" } => parent[p] = -1

\* C3: handling an empty or whitespace-only line is a no-op: no fork, no
\* change of directory or prompt, no error reported.
C3_BlankLineNoOp ==
  [][ (last'.op \in LineOps /\ IsBlank(last'.line))
        => /\ last'.op # "fork"
           /\ nprocs' = nprocs
           /\ path' = path /\ prompt' = prompt /\ cwd' = cwd
           /\ ~last'.logged ]_vars

\* C4: commands are sequential in the shell process: it does not read the
\* next line while it is inside wait, and two children of the shell are never
\* alive at the same time.
C4_Sequential ==
  \A p \in Procs :
    IsShell(p) =>
      /\ pc[p] = "wait" => (last.pid = p => last.op \notin LineOps \ {"fork"})
      /\ Cardinality(LiveChildren(p)) <= 1

NotExecutable(name) == name # <<>> /\ name \notin Executables

\* C5: for an external command whose program cannot be executed, the dispatch
\* in the shell process returns an error to main's loop, and the shell gets
\* back to its prompt without another process consuming input meanwhile.
C5_NotFoundReported ==
  \A p \in Procs :
    IsShell(p) =>
      /\ ( /\ last.pid = p /\ last.op = "wait"
           /\ NotExecutable(Parse(last.line).name) )
           => (last.res = "Err" /\ last.logged)
      /\ ( /\ pc[p] = "wait"
           /\ NotExecutable(Parse(line[p]).name) )
           => ~(last.pid # p /\ last.op \in LineOps \cup { "eof", "readerr" })

\* C6: whenever the shell is about to read a line, Shell.path is the
\* canonical text of an existing directory.
C6_PathCanonical ==
  \A p \in Procs :
    (IsShell(p) /\ pc[p] = "read") =>
      /\ ExistingDir(cwd[p], path[p])
      /\ path[p] = Display(Canonicalize(cwd[p], path[p]).node)

\* C7: cd without arguments, from any session state, sets Shell.path to the
\* canonical form of the home directory and the prompt to that path followed
\* by " % ", and succeeds, whenever the home directory exists.
C7_CdHome ==
  \A p \in Procs :
    ( /\ last.pid = p /\ last.op = "cd" /\ Parse(last.line).args = <<>>
      /\ ExistingDir(Root, home[p]) )
      => LET canon == Display(Canonicalize(Root, home[p]).node)
         IN  /\ last.res \in { "Ok", "histfail" }
             /\ path[p] = canon
             /\ prompt[p] = FormatPrompt(canon)

\* C8: over any sequence of successful cd commands the directory the session
\* is in (the one Shell.path denotes) is the one the reference reaches, which
\* resolves a relative argument against the previous canonical directory,
\* takes an absolute argument as it is and the home directory for none.
C8_CdComposes ==
  \A p \in Procs :
    (pc[p] # "unused" /\ ref[p].ok) =>
      /\ Canonicalize(Root, path[p]) = ref[p]
      /\ (last.pid = p /\ last.op = "cd") => cwd[p] = ref[p].node

\* a session that has made two successful cd commands, the second relative,
\* and whose Shell.path is not the canonical text of where it is
C8_Witness ==
  \E p \in Procs :
    /\ ref[p].ok
    /\ Len(hist[p]) = 2
    /\ \A i \in 1 .. 2 : Parse(hist[p][i]).name = CdText
    /\ Parse(hist[p][2]).args # <<>>
    /\ IsRelative(Parse(hist[p][2]).args[1])
    /\ path[p] # Display(ref[p].node)
    /\ ref[p].node = NodeT

\* C9: when readline signals end of input, main's loop ends and the process
\* exits with status 0.
C9_EofTerminates ==
  \A p \in Procs :
    (last.pid = p /\ last.op = "eof") => (pc[p] = "exited" /\ status[p] = 0)

\* C10: a line that is "exit" once trimmed ends main's loop with status 0 and
\* is neither parsed nor dispatched: no fork, no change of the session state,
\* nothing added to the history.
C10_ExitLine ==
  [][ (last'.op \in LineOps /\ last'.line # NoLine
         /\ Trim(last'.line) = ExitText)
        => /\ last'.op = "exit"
           /\ pc'[last'.pid] = "exited"
           /\ status'[last'.pid] = 0
           /\ nprocs' = nprocs
           /\ path' = path /\ prompt' = prompt /\ home' = home /\ cwd' = cwd
           /\ hist' = hist /\ disk' = disk /\ line' = line ]_vars

\* a process that left the loop on the line " exit"
C10_Witness ==
  /\ last.op = "exit"
  /\ last.line # ExitText
  /\ pc[last.pid] = "exited"
  /\ status[last.pid] = 0

\* C11: when HOME is not set the shell fails at startup with status 1; it
\* is never in main's loop with a home directory put in HOME's place.
C11_NoHomeIsFatal ==
  \A p \in Procs :
    (IsShell(p) /\ env = NoHome) => (pc[p] = "exited" /\ status[p] = 1)

\* the steps of a process that dispatches an external command
ExternalOps == { "fork", "forkfail", "wait" }

\* C12: dispatching an external command (launched, fork failed or wait
\* failed) leaves the session state of the dispatching process as it was:
\* Shell.path, the prompt, the home directory, and its working directory;
\* and the home directory of a process never changes.
C12_ExternalKeepsState ==
  [][ /\ (last'.op \in ExternalOps)
          => /\ path'[last'.pid] = path[last'.pid]
             /\ prompt'[last'.pid] = prompt[last'.pid]
             /\ home'[last'.pid] = home[last'.pid]
             /\ cwd'[last'.pid] = cwd[last'.pid]
      /\ \A p \in Procs : pc[p] # "unused" => home'[p] = home[p] ]_vars

\* a shell that is back at its prompt after an external command, with the
\* session state of a previous cd, in a run where a wait call failed
C12_Witness ==
  /\ last.op = "wait"
  /\ IsShell(last.pid)
  /\ pc[last.pid] = "read"
  /\ nwaiterr > 0
  /\ path[last.pid] # home[last.pid]

\* C13: after startup no error ends the shell: every error met while a line
\* is handled is logged and the process is back at readline; the shell ends
\* only on exit or end of input, with status 0.
C13_NoErrorIsFatal ==
  \A p \in Procs :
    IsShell(p) =>
      /\ (last.pid = p /\ last.logged) => pc[p] = "read"
      /\ pc[p] \in { "exited", "reaped" } => status[p] = 0

\* the whitespace-split reference: the maximal runs of non-whitespace
\* characters of s, by the positions where they start and end
TokenStarts(s) ==
  { i \in 1 .. Len(s) : s[i] \notin Whitespace
                          /\ (i = 1 \/ s[i - 1] \in Whitespace) }

TokenEnds(s) ==
  { i \in 1 .. Len(s) : s[i] \notin Whitespace
                          /\ (i = Len(s) \/ s[i + 1] \in Whitespace) }

Kth(S, k) == CHOOSE x \in S : Cardinality({ y \in S : y < x }) = k - 1

RefTokens(s) ==
  [ k \in 1 .. Cardinality(TokenStarts(s)) |->
      SubSeq(s, Kth(TokenStarts(s), k), Kth(TokenEnds(s), k)) ]

PromptDir(pr) == SubSeq(pr, 1, Len(pr) - 3)

\* C15: whenever the shell is about to read a line, Shell.path, the directory
\* the prompt shows and the working directory of the process denote the same
\* directory.
C15_OneDirectory ==
  \A p \in Procs :
    (IsShell(p) /\ pc[p] = "read") =>
      /\ ExistingDir(cwd[p], path[p])
      /\ Canonicalize(cwd[p], path[p]).node = cwd[p]
      /\ ExistingDir(cwd[p], PromptDir(prompt[p]))
      /\ Canonicalize(cwd[p], PromptDir(prompt[p])).node = cwd[p]

Forked == { c \in Procs : pc[c] # "unused" /\ parent[c] # -1 }

\* C16: at most one forked process is alive at any time, and no forked
\* process is the parent of another process.
C16_OneChild ==
  /\ Cardinality({ c \in Forked : Live(c) }) <= 1
  /\ \A c \in Forked : parent[c] \notin Forked

\* C17: whenever the shell is about to read a line, its prompt is the
\* canonical text of the current directory followed by " % ".
C17_PromptCanonical ==
  \A p \in Procs :
    (IsShell(p) /\ pc[p] = "read") =>
      /\ ExistingDir(cwd[p], path[p])
      /\ prompt[p] =
           FormatPrompt(Display(Canonicalize(cwd[p], path[p]).node))

\* the child wait collected in this step replaced its image
Launched(c) == image[c].called /\ image[c].prog \in Executables

\* C18: a process appends to its history exactly the line it has just
\* handled, only when that line is not empty, is not exit and its command
\* succeeded (a cd that returned Ok, an external command whose program was
\* launched), and no step appends in more than one process.
C18_HistoryOnSuccess ==
  [][ /\ \A p \in Procs :
           (pc[p] # "unused" /\ hist'[p] # hist[p]) =>
             /\ last'.pid = p
             /\ hist'[p] = Append(hist[p], last'.line)
             /\ ~IsEmptyLine(last'.line)
             /\ ~IsExit(last'.line)
             /\ last'.res = "Ok"
             /\ last'.op \in { "cd", "wait" }
             /\ (last'.op = "wait") =>
                  \E c \in Procs : /\ parent[c] = p
                                   /\ pc[c] = "exited" /\ pc'[c] = "reaped"
                                   /\ Launched(c)
      /\ (last'.op \in { "cd", "wait" } /\ last'.res = "Ok")
           => hist'[last'.pid] = Append(hist[last'.pid], last'.line)
      /\ Cardinality({ p \in Procs : pc[p] # "unused"
                                      /\ hist'[p] # hist[p] }) <= 1 ]_vars

\* C19: a failed fork returns an error that main logs; no process is
\* created, nobody waits, no chdir and no execvp happen, the session state
\* and the history are unchanged and the caller is at its next readline.
C19_ForkFailure ==
  [][ (last'.op = "forkfail") =>
        /\ last'.res = "Err" /\ last'.logged
        /\ pc' = pc /\ pc'[last'.pid] = "read"
        /\ nprocs' = nprocs /\ parent' = parent
        /\ image' = image /\ cwd' = cwd
        /\ path' = path /\ prompt' = prompt /\ home' = home
        /\ hist' = hist /\ disk' = disk /\ status' = status ]_vars

\* the shell after a failed fork of a named program, away from home
C19_Witness ==
  /\ last.op = "forkfail" /\ IsShell(last.pid) /\ pc[last.pid] = "read"
  /\ Parse(last.line).name # <<>>
  /\ path[last.pid] # home[last.pid]

\* C20: a child that calls execvp has first moved to the directory
\* Shell.path denotes, which is the directory its prompt shows, and calls it
\* with the parsed name and with the name followed by the parsed arguments;
\* a child whose chdir failed does not call execvp.
C20_ChildExec ==
  (last.op = "child") =>
    LET c == last.pid
        cmd == Parse(last.line)
    IN  /\ (last.res = "chdir") => ~image[c].called
        /\ (last.res \in { "Ok", "execvp" }) =>
             /\ image[c].called
             /\ image[c].prog = cmd.name
             /\ image[c].argv = <<cmd.name>> \o cmd.args
             /\ ExistingDir(Root, path[c])
             /\ image[c].wd = Canonicalize(Root, path[c]).node
             /\ image[c].wd = Canonicalize(Root, PromptDir(prompt[c])).node
             /\ cwd[c] = image[c].wd

\* a child that called execvp with an argument, in a directory that is not
\* the one its parent runs in
C20_Witness ==
  /\ last.op = "child" /\ last.res \in { "Ok", "execvp" }
  /\ image[last.pid].called
  /\ Len(image[last.pid].argv) = 2
  /\ image[last.pid].wd # cwd[parent[last.pid]]

====
